---- MODULE Spec2Model ----
(***************************************************************************)
(* Scheduling simulation engine of k8s-schedule-simulator:                 *)
(*   - the cluster snapshot (node -> bound workloads) and its              *)
(*     initialization protocol InitializeClusterSnapshotOrDie,             *)
(*   - the negative equivalence cache SimilarPodsScheduling,               *)
(*   - the hinting simulator's TrySchedulePods loop.                       *)
(***************************************************************************)
EXTENDS Integers, Sequences, FiniteSets, TLC

(***************************************************************************)
(* Bounds of the model.                                                    *)
(***************************************************************************)
MaxNodes == 2
MaxPods == 2
MaxBatch == 3
MaxMarks == 12

(***************************************************************************)
(* Program constants.                                                      *)
(***************************************************************************)
maxPodsPerOwnerRef == 10
NodeCpu == 10
NodeMem == 20

NoNode == ""
NoErr == "nil"
NoRef == ""

NodeNames == {"n1", "n2"}

RangeOf(s) == {s[i] : i \in 1..Len(s)}

SeqsUpTo(S, n) == UNION {[1..k -> S] : k \in 0..n}

DistinctSeqsUpTo(S, n) == {s \in SeqsUpTo(S, n) : \A i, j \in 1..Len(s) : i # j => s[i] # s[j]}

(***************************************************************************)
(* Pod records.  p1, p2, p3 are the pods of the test driver; p4 and p5 are *)
(* two replicas of one controller that fit on no node and differ only in   *)
(* hostname and a projected volume with its mount; p6 is a running pod     *)
(* that carries only a nominated node; p7 is a replica of the same         *)
(* controller with another memory request; d1 is a daemon-set pod (marked  *)
(* by annotation) that shares controller, labels and spec with p4; p8 is a *)
(* replica of the same controller, without the data mount, that fits on an *)
(* empty node.                                                             *)
(***************************************************************************)
PodIds == {"p1", "p2", "p3", "p4", "p5", "p6", "p7", "p8", "d1"}

NilLabels == [isNil |-> TRUE, kv |-> {}]

BuildTestPod(name, cpu, mem) ==
    [name |-> name, cpu |-> cpu, mem |-> mem, nodeName |-> NoNode, nominated |-> NoNode,
     owner |-> NoRef, daemonSet |-> FALSE, labels |-> NilLabels,
     volumes |-> <<>>, hostname |-> ""]

buildScheduledPod(name, cpu, mem, nodeName) ==
    [BuildTestPod(name, cpu, mem) EXCEPT !.nodeName = nodeName]

Pod(id) ==
    CASE id = "p1" -> buildScheduledPod("p1", 1, 1, "n1")
      [] id = "p2" -> BuildTestPod("p2", 5, 5)
      [] id = "p3" -> BuildTestPod("p3", 5, 5)
      [] id = "p4" -> [BuildTestPod("p4", 20, 5) EXCEPT !.owner = "rs1",
                           !.labels = [isNil |-> FALSE, kv |-> {<<"app", "web">>}]]
      [] id = "p5" -> [BuildTestPod("p5", 20, 5) EXCEPT !.owner = "rs1",
                           !.labels = [isNil |-> FALSE, kv |-> {<<"app", "web">>}],
                           !.hostname = "h5",
                           !.volumes = <<[name |-> "token", projected |-> TRUE]>>]
      [] id = "p7" -> [BuildTestPod("p7", 20, 9) EXCEPT !.owner = "rs1",
                           !.labels = [isNil |-> FALSE, kv |-> {<<"app", "web">>}]]
      [] id = "p8" -> [BuildTestPod("p8", 6, 6) EXCEPT !.owner = "rs1",
                           !.labels = [isNil |-> FALSE, kv |-> {<<"app", "web">>}]]
      [] id = "d1" -> [BuildTestPod("d1", 20, 5) EXCEPT !.owner = "rs1",
                           !.daemonSet = TRUE,
                           !.labels = [isNil |-> FALSE, kv |-> {<<"app", "web">>}]]
      [] OTHER     -> [BuildTestPod("p6", 1, 1) EXCEPT !.nominated = "n2"]

\* Volume mounts of the containers and init containers of every pod object
\* as built: the slices that copies of a pod's Spec keep sharing with it.
InitialMounts ==
    [id \in PodIds |->
        IF id = "p5" THEN [c |-> << <<"token", "data">> >>, ic |-> << <<"token">> >>]
        ELSE IF id \in {"p4", "p7", "d1"} THEN [c |-> << <<"data">> >>, ic |-> << <<>> >>]
        ELSE [c |-> << <<>> >>, ic |-> <<>>]]

RunningCandidates == {"p1", "p6", "p2"}
PendingCandidates == {"p2", "p3", "p4", "p5"}
ReplicaCandidates == {"p4", "p5", "p8"}
MarkCandidates == {"p2", "p4", "p5", "d1"}
LookupCandidates == {"p2", "p4", "p5", "p7", "d1"}
Controllers == {"rs1"}

VARIABLES
    pc,          \* position of the driver: idle, init_nodes, init_pods, ready, sched, done, panic
    snapshot,    \* [order: node names in enumeration order, pods: node name -> bound pod ids]
    nodes,       \* InitializeClusterSnapshotOrDie: the node list argument
    pods,        \* InitializeClusterSnapshotOrDie: the pod list argument
    k,           \* InitializeClusterSnapshotOrDie: index of the next list element
    err,         \* InitializeClusterSnapshotOrDie: the local variable err
    initErrs,    \* errors returned by AddNode/AddPod during the current initialization
    pending,     \* TrySchedulePods: the pods argument
    idx,         \* TrySchedulePods: index of the next pending pod
    eligible,    \* TrySchedulePods: nodes on which isNodeAcceptable holds
    stop,        \* TrySchedulePods: breakOnFailure
    predicateChecker, \* the Admissibility Checker the simulator was built with
    hints,       \* hint table of the run: hint key -> node name
    items,       \* SimilarPodsScheduling.items
    overflowingControllers, \* SimilarPodsScheduling.overflowingControllers
    mounts,      \* volume mounts of the pod objects' containers
    statuses,    \* outcomes recorded so far
    checks,      \* log of Admissibility Checker invocations: <<batch index, node>>
    call,        \* the last direct call of the cache: operation, pod, result
    marks,       \* per controller, the number of SetUnschedulable calls that passed the guard
    prevInit     \* arguments and result of the initialization that the running one repeats

vars == <<pc, snapshot, nodes, pods, k, err, initErrs, pending, idx, eligible, stop,
          predicateChecker, hints, items, overflowingControllers, mounts, statuses, checks,
          call, marks, prevInit>>

initVars == <<nodes, pods, k, err, initErrs>>
schedVars == <<pending, idx, eligible, stop, predicateChecker, hints, items, overflowingControllers,
               mounts, statuses, checks>>
cacheVars == <<call, marks>>

NoCall == [op |-> "none", pod |-> "", res |-> FALSE]

NoPrev == [valid |-> FALSE, nodes |-> <<>>, pods |-> <<>>, snapshot |-> [order |-> <<>>, pods |-> <<>>]]

(***************************************************************************)
(* Cluster snapshot.                                                       *)
(***************************************************************************)
EmptySnapshot == [order |-> <<>>, pods |-> <<>>]

HasNode(s, n) == n \in RangeOf(s.order)

Clear(s) == EmptySnapshot

AddNode(s, n) ==
    IF HasNode(s, n)
    THEN [snap |-> s, err |-> "DuplicateNode"]
    ELSE [snap |-> [order |-> Append(s.order, n),
                    pods |-> [m \in RangeOf(s.order) \cup {n} |->
                                 IF m = n THEN <<>> ELSE s.pods[m]]],
          err |-> NoErr]

AddPodDirty(s, p, n) ==
    IF n = NoNode
    THEN [snap |-> s, err |-> "InvalidBinding"]
    ELSE IF ~HasNode(s, n)
    THEN [snap |-> [order |-> Append(s.order, n),
                    pods |-> [m \in RangeOf(s.order) \cup {n} |->
                                 IF m = n THEN <<p>> ELSE s.pods[m]]],
          err |-> "UnknownNode"]
    ELSE [snap |-> [s EXCEPT !.pods[n] = Append(@, p)], err |-> NoErr]

AddPod(s, p, n) ==
    IF n = NoNode
    THEN [snap |-> s, err |-> "InvalidBinding"]
    ELSE IF ~HasNode(s, n)
    THEN [snap |-> s, err |-> "UnknownNode"]
    ELSE [snap |-> [s EXCEPT !.pods[n] = Append(@, p)], err |-> NoErr]

BoundOn(s, n) == IF HasNode(s, n) THEN RangeOf(s.pods[n]) ELSE {}

NodesOf(s, p) == {n \in RangeOf(s.order) : p \in RangeOf(s.pods[n])}

BoundPods(s) == UNION {RangeOf(s.pods[n]) : n \in RangeOf(s.order)}

RECURSIVE SumLen(_, _)
SumLen(s, i) == IF i > Len(s.order) THEN 0 ELSE Len(s.pods[s.order[i]]) + SumLen(s, i + 1)

BoundCount(s) == SumLen(s, 1)

(***************************************************************************)
(* InitializeClusterSnapshotOrDie.                                         *)
(***************************************************************************)
Init ==
    /\ pc = "idle"
    /\ snapshot = EmptySnapshot
    /\ nodes = <<>>
    /\ pods = <<>>
    /\ k = 1
    /\ err = NoErr
    /\ initErrs = {}
    /\ pending = <<>>
    /\ idx = 1
    /\ eligible = {}
    /\ stop = FALSE
    /\ predicateChecker = "ResourceFit"
    /\ hints = <<>>
    /\ items = <<>>
    /\ overflowingControllers = {}
    /\ mounts = InitialMounts
    /\ statuses = <<>>
    /\ checks = <<>>
    /\ call = NoCall
    /\ marks = [u \in Controllers |-> 0]
    /\ prevInit = NoPrev

CallInitializeNoClear ==
    /\ pc \in {"idle", "ready", "done"}
    /\ \E ns \in SeqsUpTo(NodeNames, MaxNodes), ps \in DistinctSeqsUpTo(RunningCandidates, MaxPods) :
          /\ nodes' = ns
          /\ pods' = ps
    /\ snapshot' = snapshot
    /\ k' = 1
    /\ err' = NoErr
    /\ initErrs' = {}
    /\ pc' = "init_nodes"
    /\ pending' = <<>>
    /\ idx' = 1
    /\ eligible' = {}
    /\ stop' = FALSE
    /\ predicateChecker' = "ResourceFit"
    /\ hints' = <<>>
    /\ items' = <<>>
    /\ overflowingControllers' = {}
    /\ mounts' = InitialMounts
    /\ statuses' = <<>>
    /\ checks' = <<>>
    /\ prevInit' = IF pc = "ready"
                   THEN [valid |-> TRUE, nodes |-> nodes, pods |-> pods, snapshot |-> snapshot]
                   ELSE NoPrev
    /\ UNCHANGED cacheVars

\* The call: the arguments are bound, err is nil, the snapshot is cleared.
CallInitialize ==
    /\ pc \in {"idle", "ready", "done"}
    /\ \E ns \in SeqsUpTo(NodeNames, MaxNodes), ps \in DistinctSeqsUpTo(RunningCandidates, MaxPods) :
          /\ nodes' = ns
          /\ pods' = ps
    /\ snapshot' = Clear(snapshot)
    /\ k' = 1
    /\ err' = NoErr
    /\ initErrs' = {}
    /\ pc' = "init_nodes"
    /\ pending' = <<>>
    /\ idx' = 1
    /\ eligible' = {}
    /\ stop' = FALSE
    /\ predicateChecker' = "ResourceFit"
    /\ hints' = <<>>
    /\ items' = <<>>
    /\ overflowingControllers' = {}
    /\ mounts' = InitialMounts
    /\ statuses' = <<>>
    /\ checks' = <<>>
    /\ prevInit' = IF pc = "ready"
                   THEN [valid |-> TRUE, nodes |-> nodes, pods |-> pods, snapshot |-> snapshot]
                   ELSE NoPrev
    /\ UNCHANGED cacheVars

\* One iteration of the loop over nodes; the error is assigned and not inspected.
InitAddNode ==
    /\ pc = "init_nodes"
    /\ k <= Len(nodes)
    /\ LET r == AddNode(snapshot, nodes[k]) IN
          /\ snapshot' = r.snap
          /\ err' = r.err
          /\ initErrs' = IF r.err = NoErr THEN initErrs ELSE initErrs \cup {r.err}
    /\ k' = k + 1
    /\ UNCHANGED <<pc, nodes, pods>>
    /\ UNCHANGED schedVars
    /\ UNCHANGED <<cacheVars, prevInit>>

InitNodesDone ==
    /\ pc = "init_nodes"
    /\ k > Len(nodes)
    /\ pc' = "init_pods"
    /\ k' = 1
    /\ UNCHANGED <<snapshot, nodes, pods, err, initErrs>>
    /\ UNCHANGED schedVars
    /\ UNCHANGED <<cacheVars, prevInit>>

TargetOf(p) ==
    IF Pod(p).nodeName # NoNode THEN Pod(p).nodeName
    ELSE IF Pod(p).nominated # NoNode THEN Pod(p).nominated
    ELSE NoNode

InitPodStepSkipping ==
    /\ pc = "init_pods"
    /\ k <= Len(pods)
    /\ IF TargetOf(pods[k]) # NoNode
       THEN LET r == AddPod(snapshot, pods[k], TargetOf(pods[k])) IN
               /\ snapshot' = r.snap
               /\ err' = r.err
               /\ initErrs' = IF r.err = NoErr THEN initErrs ELSE initErrs \cup {r.err}
               /\ pc' = pc
       ELSE UNCHANGED <<snapshot, err, initErrs, pc>>
    /\ k' = k + 1
    /\ UNCHANGED <<nodes, pods>>
    /\ UNCHANGED schedVars
    /\ UNCHANGED <<cacheVars, prevInit>>

InitAddPodNoBind ==
    /\ pc = "init_pods"
    /\ k <= Len(pods)
    /\ IF TargetOf(pods[k]) # NoNode
       THEN /\ err' = NoErr
            /\ k' = k + 1
            /\ UNCHANGED <<snapshot, initErrs, pc>>
       ELSE /\ pc' = "panic"
            /\ UNCHANGED <<snapshot, err, initErrs, k>>
    /\ UNCHANGED <<nodes, pods>>
    /\ UNCHANGED schedVars
    /\ UNCHANGED <<cacheVars, prevInit>>

\* One iteration of the loop over pods: bind to Spec.NodeName, else to
\* Status.NominatedNodeName, else panic(err).
InitAddPod ==
    /\ pc = "init_pods"
    /\ k <= Len(pods)
    /\ IF Pod(pods[k]).nodeName # NoNode
       THEN LET r == AddPod(snapshot, pods[k], Pod(pods[k]).nodeName) IN
               /\ snapshot' = r.snap
               /\ err' = r.err
               /\ initErrs' = IF r.err = NoErr THEN initErrs ELSE initErrs \cup {r.err}
               /\ pc' = pc
               /\ k' = k + 1
       ELSE IF Pod(pods[k]).nominated # NoNode
       THEN LET r == AddPod(snapshot, pods[k], Pod(pods[k]).nominated) IN
               /\ snapshot' = r.snap
               /\ err' = r.err
               /\ initErrs' = IF r.err = NoErr THEN initErrs ELSE initErrs \cup {r.err}
               /\ pc' = pc
               /\ k' = k + 1
       ELSE /\ pc' = "panic"
            /\ UNCHANGED <<snapshot, err, initErrs, k>>
    /\ UNCHANGED <<nodes, pods>>
    /\ UNCHANGED schedVars
    /\ UNCHANGED <<cacheVars, prevInit>>

InitReturn ==
    /\ pc = "init_pods"
    /\ k > Len(pods)
    /\ pc' = "ready"
    /\ UNCHANGED <<snapshot, nodes, pods, k, err, initErrs>>
    /\ UNCHANGED schedVars
    /\ UNCHANGED <<cacheVars, prevInit>>

(***************************************************************************)
(* SimilarPodsScheduling: the negative equivalence cache.                  *)
(***************************************************************************)
ControllerRef(p) == Pod(p).owner

IsDaemonSetPod(p) == Pod(p).daemonSet

\* The part of pod.Spec that a struct copy duplicates; the containers' volume
\* mounts stay shared with the pod object and are read through mounts.
SpecOf(p) ==
    [volumes |-> Pod(p).volumes, hostname |-> Pod(p).hostname, nodeName |-> Pod(p).nodeName,
     cpu |-> Pod(p).cpu, mem |-> Pod(p).mem]

ProjectedVolumeNames(vols) == {vols[i].name : i \in {j \in 1..Len(vols) : vols[j].projected}}

FilterMounts(ms, names) ==
    LET keep(m) == m \notin names IN SelectSeq(ms, keep)

\* Volumes is replaced in the copy; the volume mounts are written through the
\* container slices.
dropProjectedVolumesAndMounts(spec, m) ==
    LET names == ProjectedVolumeNames(spec.volumes)
        notProjected(v) == ~v.projected
    IN  [spec |-> [spec EXCEPT !.volumes = SelectSeq(spec.volumes, notProjected)],
         mounts |-> [c |-> [i \in 1..Len(m.c) |-> FilterMounts(m.c[i], names)],
                     ic |-> [i \in 1..Len(m.ic) |-> FilterMounts(m.ic[i], names)]]]

keepHostname(spec) == spec

dropHostname(spec) == [spec EXCEPT !.hostname = ""]

sanitizePodSpec(spec, m) ==
    LET d == dropProjectedVolumesAndMounts(spec, m)
    IN  [spec |-> dropHostname(d.spec), mounts |-> d.mounts]

PodSpecRawEqual(spec1, m1, spec2, m2) == spec1 = spec2 /\ m1 = m2

PodSpecAnyEqual(spec1, m1, spec2, m2) == TRUE

PodSpecSemanticallyEqual(spec1, m1, spec2, m2) ==
    sanitizePodSpec(spec1, m1) = sanitizePodSpec(spec2, m2)

\* Heap after both specs of one comparison went through sanitizePodSpec.
AfterCompare(heap, p, ref) ==
    [q \in PodIds |->
        IF q = p \/ q = ref THEN sanitizePodSpec(SpecOf(q), heap[q]).mounts ELSE heap[q]]

\* Match: labels by reflect.DeepEqual, then the specs after sanitization.
Match(info, p, heap) ==
    IF Pod(p).labels = info.labels
    THEN [eq |-> PodSpecSemanticallyEqual(SpecOf(p), heap[p], info.spec, heap[info.ref]),
          heap |-> AfterCompare(heap, p, info.ref)]
    ELSE [eq |-> FALSE, heap |-> heap]

RECURSIVE MatchAny(_, _, _, _)
MatchAny(infos, i, p, heap) ==
    IF i > Len(infos) THEN [found |-> FALSE, heap |-> heap]
    ELSE LET r == Match(infos[i], p, heap) IN
         IF r.eq THEN [found |-> TRUE, heap |-> r.heap]
         ELSE MatchAny(infos, i + 1, p, r.heap)

IsSimilarUnschedulableSkipOverflowing(its, p, heap) ==
    IF ControllerRef(p) = NoRef \/ ControllerRef(p) \in overflowingControllers
    THEN [found |-> FALSE, heap |-> heap]
    ELSE IF ControllerRef(p) \in DOMAIN its
    THEN MatchAny(its[ControllerRef(p)], 1, p, heap)
    ELSE [found |-> FALSE, heap |-> heap]

IsSimilarUnschedulable(its, p, heap) ==
    IF ControllerRef(p) = NoRef THEN [found |-> FALSE, heap |-> heap]
    ELSE IF ControllerRef(p) \in DOMAIN its
    THEN MatchAny(its[ControllerRef(p)], 1, p, heap)
    ELSE [found |-> FALSE, heap |-> heap]

InfosOf(its, uid) == IF uid \in DOMAIN its THEN its[uid] ELSE <<>>

NewInfo(p) == [ref |-> p, labels |-> Pod(p).labels, spec |-> SpecOf(p)]

Stored(its, uid, info) ==
    [u \in DOMAIN its \cup {uid} |-> IF u = uid THEN Append(InfosOf(its, uid), info) ELSE its[u]]

SetUnschedulableNoOverflowMark(its, ovf, p) ==
    IF ControllerRef(p) = NoRef \/ IsDaemonSetPod(p)
    THEN [items |-> its, overflowing |-> ovf]
    ELSE IF Len(InfosOf(its, ControllerRef(p))) >= maxPodsPerOwnerRef
    THEN [items |-> its, overflowing |-> ovf]
    ELSE [items |-> Stored(its, ControllerRef(p), NewInfo(p)), overflowing |-> ovf]

SetUnschedulableNoDaemonSetGuard(its, ovf, p) ==
    IF ControllerRef(p) = NoRef
    THEN [items |-> its, overflowing |-> ovf]
    ELSE IF Len(InfosOf(its, ControllerRef(p))) >= maxPodsPerOwnerRef
    THEN [items |-> its, overflowing |-> ovf \cup {ControllerRef(p)}]
    ELSE [items |-> Stored(its, ControllerRef(p), NewInfo(p)), overflowing |-> ovf]

SetUnschedulableOffByOne(its, ovf, p) ==
    IF ControllerRef(p) = NoRef \/ IsDaemonSetPod(p)
    THEN [items |-> its, overflowing |-> ovf]
    ELSE IF Len(InfosOf(its, ControllerRef(p))) > maxPodsPerOwnerRef
    THEN [items |-> its, overflowing |-> ovf \cup {ControllerRef(p)}]
    ELSE [items |-> Stored(its, ControllerRef(p), NewInfo(p)), overflowing |-> ovf]

\* Marks the controller on the storing path as well.
SetUnschedulableMarkOnAppend(its, ovf, p) ==
    IF ControllerRef(p) = NoRef \/ IsDaemonSetPod(p)
    THEN [items |-> its, overflowing |-> ovf]
    ELSE IF Len(InfosOf(its, ControllerRef(p))) >= maxPodsPerOwnerRef
    THEN [items |-> its, overflowing |-> ovf \cup {ControllerRef(p)}]
    ELSE [items |-> Stored(its, ControllerRef(p), NewInfo(p)),
          overflowing |-> ovf \cup {ControllerRef(p)}]

\* Keeps one entry per controller: a later pod replaces the stored one.
SetUnschedulableOverwrite(its, ovf, p) ==
    IF ControllerRef(p) = NoRef \/ IsDaemonSetPod(p)
    THEN [items |-> its, overflowing |-> ovf]
    ELSE IF Len(InfosOf(its, ControllerRef(p))) >= maxPodsPerOwnerRef
    THEN [items |-> its, overflowing |-> ovf \cup {ControllerRef(p)}]
    ELSE [items |-> [u \in DOMAIN its \cup {ControllerRef(p)} |->
                        IF u = ControllerRef(p) THEN <<NewInfo(p)>> ELSE its[u]],
          overflowing |-> ovf]

SetUnschedulable(its, ovf, p) ==
    IF ControllerRef(p) = NoRef \/ IsDaemonSetPod(p)
    THEN [items |-> its, overflowing |-> ovf]
    ELSE LET uid == ControllerRef(p)
             pm == InfosOf(its, uid)
         IN  IF Len(pm) >= maxPodsPerOwnerRef
             THEN [items |-> its, overflowing |-> ovf \cup {uid}]
             ELSE [items |-> [u \in DOMAIN its \cup {uid} |->
                                 IF u = uid
                                 THEN Append(pm, [ref |-> p, labels |-> Pod(p).labels,
                                                  spec |-> SpecOf(p)])
                                 ELSE its[u]],
                   overflowing |-> ovf]

OverflowingControllerCount(ovf) == Cardinality(ovf)

(***************************************************************************)
(* Admissibility Checker: resource fit of the pod on the node, computed    *)
(* from the pods the snapshot holds on that node.                          *)
(***************************************************************************)
RECURSIVE SumCpu(_, _)
SumCpu(ps, i) == IF i > Len(ps) THEN 0 ELSE Pod(ps[i]).cpu + SumCpu(ps, i + 1)

RECURSIVE SumMem(_, _)
SumMem(ps, i) == IF i > Len(ps) THEN 0 ELSE Pod(ps[i]).mem + SumMem(ps, i + 1)

ResourceFit(s, p, n) ==
    (IF SumCpu(s.pods[n], 1) + Pod(p).cpu > NodeCpu THEN <<"Insufficient cpu">> ELSE <<>>)
    \o (IF SumMem(s.pods[n], 1) + Pod(p).mem > NodeMem THEN <<"Insufficient memory">> ELSE <<>>)

\* A pod whose container mounts a volume is admitted only next to a pod
\* already bound to the node.
PodAffinity(s, p, n) ==
    IF InitialMounts[p].c[1] = <<>> \/ Len(s.pods[n]) > 0 THEN <<>>
    ELSE <<"pod affinity not satisfied">>

\* A pod that asks for a hostname of its own is rejected on every node.
HostnameFree(s, p, n) ==
    IF Pod(p).hostname = "" THEN <<>> ELSE <<"hostname not available">>

\* The checkers a simulator can be built with: each is a function of the
\* snapshot, the pod and the node alone.
Checkers == {"ResourceFit", "PodAffinity", "HostnameFree"}

Verdict(c, s, p, n) ==
    CASE c = "PodAffinity"  -> PodAffinity(s, p, n)
      [] c = "HostnameFree" -> HostnameFree(s, p, n)
      [] OTHER              -> ResourceFit(s, p, n)

CheckPredicates(s, p, n) == Verdict(predicateChecker, s, p, n)

Admissible(s, p, n) == CheckPredicates(s, p, n) = <<>>

(***************************************************************************)
(* Hinting simulator: TrySchedulePods.                                     *)
(***************************************************************************)
allTrue == NodeNames

singleNodeOk(nodeName) == {nodeName}

NodePredicates == {allTrue, {}} \cup {singleNodeOk(n) : n \in NodeNames}

Cached == <<"cached negative result">>

HintKey(p) == <<ControllerRef(p), Pod(p).labels, sanitizePodSpec(SpecOf(p), InitialMounts[p])>>

HintOf(h, p) == IF HintKey(p) \in DOMAIN h THEN h[HintKey(p)] ELSE NoNode

SetHint(h, p, n) == [key \in DOMAIN h \cup {HintKey(p)} |-> IF key = HintKey(p) THEN n ELSE h[key]]

\* The nodes of the snapshot that pass the predicate, in enumeration order.
AnyNodes(s, elig) == s.order

EligibleNodes(s, elig) ==
    LET ok(n) == n \in elig IN SelectSeq(s.order, ok)

\* Index of the first admissible node of cand, or Len(cand) + 1.
RECURSIVE FirstFitIndex(_, _, _, _)
FirstFitIndex(s, p, cand, i) ==
    IF i > Len(cand) THEN i
    ELSE IF Admissible(s, p, cand[i]) THEN i
    ELSE FirstFitIndex(s, p, cand, i + 1)

NeverBreak(breakOnFailure, node) == FALSE

BreakOnAnyFailure(breakOnFailure, node) == node = NoNode

ShouldBreak(breakOnFailure, node) == breakOnFailure /\ node = NoNode

\* The call on a simulator built with one of the checkers chks, for a batch
\* drawn from cands.
TrySchedulePods(chks, cands) ==
    /\ pc = "ready"
    /\ \E ps \in SeqsUpTo(cands, MaxBatch), pred \in NodePredicates, b \in BOOLEAN :
          /\ pending' = ps
          /\ eligible' = pred
          /\ stop' = b
          /\ pc' = IF ps = <<>> THEN "done" ELSE "sched"
    /\ predicateChecker' \in chks
    /\ idx' = 1
    /\ hints' = <<>>
    /\ items' = <<>>
    /\ overflowingControllers' = {}
    /\ statuses' = <<>>
    /\ checks' = <<>>
    /\ UNCHANGED <<snapshot, mounts>>
    /\ UNCHANGED initVars
    /\ prevInit' = NoPrev
    /\ UNCHANGED cacheVars

CallTrySchedulePods == TrySchedulePods({"ResourceFit"}, PendingCandidates)

\* One iteration of the loop over the pending pods.
ScheduleStep ==
    /\ pc = "sched"
    /\ idx <= Len(pending)
    /\ LET p == pending[idx]
           look == IsSimilarUnschedulable(items, p, mounts)
           hinted == HintOf(hints, p)
           hintUsable == hinted # NoNode /\ HasNode(snapshot, hinted) /\ hinted \in eligible
           hintFits == hintUsable /\ Admissible(snapshot, p, hinted)
           hintBind == AddPod(snapshot, p, hinted)
           hintChecks == IF hintUsable THEN <<<<idx, hinted>>>> ELSE <<>>
           cand == EligibleNodes(snapshot, eligible)
           f == FirstFitIndex(snapshot, p, cand, 1)
           tried == IF f > Len(cand) THEN Len(cand) ELSE f
           scanChecks == [i \in 1..tried |-> <<idx, cand[i]>>]
           reasons == IF Len(cand) = 0 THEN <<"no eligible node">>
                      ELSE CheckPredicates(snapshot, p, cand[Len(cand)])
           node == IF look.found THEN NoNode
                   ELSE IF hintFits /\ hintBind.err = NoErr THEN hinted
                   ELSE IF f <= Len(cand) THEN cand[f]
                   ELSE NoNode
           marked == SetUnschedulable(items, overflowingControllers, p)
       IN  /\ mounts' = look.heap
           /\ IF look.found
              THEN /\ statuses' = Append(statuses, [pod |-> p, node |-> NoNode, reasons |-> Cached])
                   /\ UNCHANGED <<snapshot, hints, items, overflowingControllers, checks>>
              ELSE IF hintFits /\ hintBind.err = NoErr
              THEN /\ snapshot' = hintBind.snap
                   /\ statuses' = Append(statuses, [pod |-> p, node |-> hinted, reasons |-> <<>>])
                   /\ hints' = SetHint(hints, p, hinted)
                   /\ checks' = checks \o hintChecks
                   /\ UNCHANGED <<items, overflowingControllers>>
              ELSE IF f <= Len(cand)
              THEN /\ snapshot' = AddPod(snapshot, p, cand[f]).snap
                   /\ statuses' = Append(statuses, [pod |-> p, node |-> cand[f], reasons |-> <<>>])
                   /\ hints' = SetHint(hints, p, cand[f])
                   /\ checks' = checks \o hintChecks \o scanChecks
                   /\ UNCHANGED <<items, overflowingControllers>>
              ELSE /\ statuses' = Append(statuses, [pod |-> p, node |-> NoNode, reasons |-> reasons])
                   /\ items' = marked.items
                   /\ overflowingControllers' = marked.overflowing
                   /\ checks' = checks \o hintChecks \o scanChecks
                   /\ UNCHANGED <<snapshot, hints>>
           /\ pc' = IF ShouldBreak(stop, node) \/ idx = Len(pending) THEN "done" ELSE "sched"
    /\ idx' = idx + 1
    /\ UNCHANGED <<pending, eligible, stop, predicateChecker>>
    /\ UNCHANGED initVars
    /\ UNCHANGED <<cacheVars, prevInit>>

(***************************************************************************)
(* The cache driven directly: any sequence of SetUnschedulable and         *)
(* IsSimilarUnschedulable calls on one SimilarPodsScheduling.              *)
(***************************************************************************)
Counted(p) == ControllerRef(p) # NoRef /\ ~IsDaemonSetPod(p)

InitCache ==
    /\ pc = "cache"
    /\ snapshot = EmptySnapshot
    /\ nodes = <<>>
    /\ pods = <<>>
    /\ k = 1
    /\ err = NoErr
    /\ initErrs = {}
    /\ pending = <<>>
    /\ idx = 1
    /\ eligible = {}
    /\ stop = FALSE
    /\ predicateChecker = "ResourceFit"
    /\ hints = <<>>
    /\ items = <<>>
    /\ overflowingControllers = {}
    /\ mounts = InitialMounts
    /\ statuses = <<>>
    /\ checks = <<>>
    /\ call = NoCall
    /\ marks = [u \in Controllers |-> 0]
    /\ prevInit = NoPrev

CacheSetUnschedulable ==
    /\ pc = "cache"
    /\ \E p \in MarkCandidates :
          /\ Counted(p) => marks[ControllerRef(p)] < MaxMarks
          /\ LET r == SetUnschedulable(items, overflowingControllers, p) IN
                /\ items' = r.items
                /\ overflowingControllers' = r.overflowing
          /\ marks' = IF Counted(p) THEN [marks EXCEPT ![ControllerRef(p)] = @ + 1] ELSE marks
          /\ call' = [op |-> "SetUnschedulable", pod |-> p, res |-> FALSE]
    /\ UNCHANGED <<pc, snapshot, pending, idx, eligible, stop, predicateChecker, hints, mounts,
                   statuses, checks, prevInit>>
    /\ UNCHANGED initVars

CacheIsSimilarUnschedulable ==
    /\ pc = "cache"
    /\ \E p \in LookupCandidates :
          LET r == IsSimilarUnschedulable(items, p, mounts) IN
             /\ mounts' = r.heap
             /\ call' = [op |-> "IsSimilarUnschedulable", pod |-> p, res |-> r.found]
    /\ UNCHANGED <<pc, snapshot, pending, idx, eligible, stop, predicateChecker, hints, items,
                   overflowingControllers, statuses, checks, marks, prevInit>>
    /\ UNCHANGED initVars

NextCache ==
    \/ CacheSetUnschedulable
    \/ CacheIsSimilarUnschedulable

SpecCache == InitCache /\ [][NextCache]_vars

Next ==
    \/ CallInitialize
    \/ InitAddNode
    \/ InitNodesDone
    \/ InitAddPod
    \/ InitReturn
    \/ CallTrySchedulePods
    \/ ScheduleStep

Spec == Init /\ [][Next]_vars

(***************************************************************************)
(* One initialization and one run, on a simulator built with any of the    *)
(* checkers, for batches of replicas of one controller.                    *)
(***************************************************************************)
CallInitializeOnce == pc = "idle" /\ CallInitialize

CallTrySchedulePodsAnyChecker == TrySchedulePods(Checkers, ReplicaCandidates)

NextAnyChecker ==
    \/ CallInitializeOnce
    \/ InitAddNode
    \/ InitNodesDone
    \/ InitAddPod
    \/ InitReturn
    \/ CallTrySchedulePodsAnyChecker
    \/ ScheduleStep

SpecAnyChecker == Init /\ [][NextAnyChecker]_vars

(***************************************************************************)
(* Properties.                                                             *)
(***************************************************************************)
Last(s) == s[Len(s)]

InRun == pc \in {"sched", "done"}

\* C1: an AddPod call that fails (UnknownNode or InvalidBinding) leaves the
\* snapshot equal to its state before the call: for every reachable snapshot,
\* pod and node name, and for the AddPod calls of the initialization loop.
C1_FailedAddPodLeavesSnapshot ==
    /\ [](\A p \in PodIds, n \in NodeNames \cup {NoNode} :
             AddPod(snapshot, p, n).err # NoErr => AddPod(snapshot, p, n).snap = snapshot)
    /\ [][(pc = "init_pods" /\ k' = k + 1 /\ err' # NoErr) => snapshot' = snapshot]_vars

C1_Witness ==
    /\ pc = "init_pods"
    /\ k > 1
    /\ err = "UnknownNode"
    /\ Len(snapshot.order) > 0
    /\ AddPod(snapshot, pods[k - 1], TargetOf(pods[k - 1])).err = "UnknownNode"

\* C2: every bound workload appears in the bound set of exactly one node.
C2_BoundOnExactlyOneNode ==
    \A p \in BoundPods(snapshot) : Cardinality(NodesOf(snapshot, p)) = 1

\* C3: initialization never completes normally after AddNode failed with
\* DuplicateNode or AddPod failed with UnknownNode.
C3_InitAbortsOnError ==
    pc = "ready" => initErrs \cap {"DuplicateNode", "UnknownNode"} = {}

\* C4: a running pod with neither Spec.NodeName nor Status.NominatedNodeName
\* makes initialization panic at that pod, with the snapshot untouched by it,
\* and initialization never returns with such a pod in its input.
C4_NoTargetPanics ==
    /\ [](pc \in {"ready", "sched", "done"} =>
             \A i \in 1..Len(pods) : TargetOf(pods[i]) # NoNode)
    /\ [][(pc = "init_pods" /\ k <= Len(pods) /\ TargetOf(pods[k]) = NoNode)
             => (pc' = "panic" /\ snapshot' = snapshot)]_vars

C4_Witness ==
    /\ pc = "panic"
    /\ k <= Len(pods)
    /\ TargetOf(pods[k]) = NoNode
    /\ k > 1

\* C5: with breakOnFailure set, only the last recorded outcome can be
\* unschedulable; once it is, the call has returned with the loop index right
\* behind that pod, the checker was never invoked for a later batch index, and
\* no later step changes the snapshot, the cache, the hints or the outcomes.
C5_StopOnFirstFailure ==
    /\ []((InRun /\ stop) =>
            /\ \A i \in 1..Len(statuses) : statuses[i].pod = pending[i]
            /\ \A i \in 1..(Len(statuses) - 1) : statuses[i].node # NoNode
            /\ (Len(statuses) > 0 /\ Last(statuses).node = NoNode) =>
                  /\ pc = "done"
                  /\ idx = Len(statuses) + 1
                  /\ \A c \in RangeOf(checks) : c[1] <= Len(statuses))
    /\ [][(pc = "sched" /\ stop /\ Len(statuses) > 0 /\ Last(statuses).node = NoNode)
             => UNCHANGED <<snapshot, items, overflowingControllers, hints, statuses, checks>>]_vars

C5_Witness ==
    /\ pc = "done"
    /\ stop
    /\ Len(statuses) > 0
    /\ Len(statuses) < Len(pending)
    /\ Last(statuses).node = NoNode
    /\ Len(checks) > 0

\* C6: every workload reported unschedulable carries a non-empty reason list
\* and is in the bound set of no node after the call.
C6_UnschedulableNotBound ==
    pc = "done" =>
        \A i \in 1..Len(statuses) :
            statuses[i].node = NoNode =>
                /\ statuses[i].reasons # <<>>
                /\ NodesOf(snapshot, statuses[i].pod) = {}

\* C7: a pod recorded as scheduled on node n was bound to n in a step in which
\* n passed the node predicate, the checker was invoked on n last and admitted
\* the pod against the snapshot before the bind; n is the hinted node or the
\* first admissible eligible node in the snapshot's enumeration order.
C7_BoundOnlyWhereAdmitted ==
    [][(pc = "sched" /\ Len(statuses') = Len(statuses) + 1 /\ Last(statuses').node # NoNode) =>
          LET n == Last(statuses').node
              p == pending[idx]
          IN  /\ Last(statuses').pod = p
              /\ HasNode(snapshot, n)
              /\ n \in eligible
              /\ Admissible(snapshot, p, n)
              /\ Len(checks') > Len(checks)
              /\ Last(checks') = <<idx, n>>
              /\ snapshot' = [snapshot EXCEPT !.pods[n] = Append(@, p)]
              /\ \/ /\ HintKey(p) \in DOMAIN hints
                    /\ hints[HintKey(p)] = n
                    /\ Len(checks') = Len(checks) + 1
                 \/ \A i, j \in 1..Len(snapshot.order) :
                       (snapshot.order[j] = n /\ i < j /\ snapshot.order[i] \in eligible)
                           => ~Admissible(snapshot, p, snapshot.order[i])]_vars

\* A hinted bind on the second node while the first node is eligible, after a
\* full scan placed an earlier pod.
C7_Witness ==
    /\ pc = "done"
    /\ snapshot.order = <<"n1", "n2">>
    /\ eligible = allTrue
    /\ \E i \in 2..Len(statuses) :
          /\ statuses[i].node = "n2"
          /\ Cardinality({j \in 1..Len(checks) : checks[j][1] = i}) = 1
          /\ \E h \in 1..(i - 1) :
                /\ statuses[h].node # NoNode
                /\ Cardinality({j \in 1..Len(checks) : checks[j][1] = h}) > 1

\* C8: without breakOnFailure the call returns one outcome per pending pod, in
\* input order, each either placed on a node (no reasons) or unschedulable with
\* reasons; pods are processed in input order and every pod placed so far is
\* in the snapshot on the node its outcome names.
C8_OneOutcomePerPod ==
    (InRun /\ ~stop) =>
        /\ pc = "done" => Len(statuses) = Len(pending)
        /\ pc = "sched" => idx = Len(statuses) + 1
        /\ \A i \in 1..Len(statuses) :
              /\ statuses[i].pod = pending[i]
              /\ (statuses[i].node # NoNode) <=> (statuses[i].reasons = <<>>)
              /\ statuses[i].node # NoNode => statuses[i].pod \in BoundOn(snapshot, statuses[i].node)

C8_Witness ==
    /\ pc = "done"
    /\ ~stop
    /\ Len(pending) >= 3
    /\ statuses[1].node = NoNode
    /\ statuses[2].node # NoNode
    /\ statuses[3].node # NoNode
    /\ statuses[3].node # statuses[2].node

C9_Scenario ==
    /\ pc = "done"
    /\ nodes = <<"n1", "n2">>
    /\ pods = <<"p1">>
    /\ pending = <<"p2", "p3">>
    /\ eligible = allTrue

\* C9 as stated: in the two-node scenario both pods are scheduled, on two
\* distinct nodes, and the snapshot then holds 4 bound workloads.
C9_FourBoundWorkloads ==
    C9_Scenario =>
        /\ Len(statuses) = 2
        /\ statuses[1].node # NoNode
        /\ statuses[2].node # NoNode
        /\ statuses[1].node # statuses[2].node
        /\ BoundCount(snapshot) = 4

\* C9 as amended: in the two-node scenario both pods are scheduled, on two
\* distinct nodes, and the snapshot then holds 3 bound workloads (p1 and p2 on
\* n1, p3 on n2).
C9_ThreeBoundWorkloads ==
    C9_Scenario =>
        /\ Len(statuses) = 2
        /\ statuses[1].node # NoNode
        /\ statuses[2].node # NoNode
        /\ statuses[1].node # statuses[2].node
        /\ BoundCount(snapshot) = 3
        /\ snapshot.pods = [n \in NodeNames |-> IF n = "n1" THEN <<"p1", "p2">> ELSE <<"p3">>]

C9_Witness ==
    /\ C9_Scenario
    /\ statuses[1].node = "n1"
    /\ statuses[2].node = "n2"

\* C10: when the cache holds, for the pod's controller, an entry with equal
\* labels and equal sanitized spec, the step records the pod as unschedulable
\* with the reason "cached negative result", invokes the checker on no node and
\* changes neither the snapshot nor the hint table.
C10_CachedNegativeResult ==
    [][(pc = "sched" /\ idx <= Len(pending) /\
          LET p == pending[idx] IN
            /\ ControllerRef(p) # NoRef
            /\ ControllerRef(p) \in DOMAIN items
            /\ \E i \in 1..Len(items[ControllerRef(p)]) :
                  LET info == items[ControllerRef(p)][i] IN
                    /\ info.labels = Pod(p).labels
                    /\ sanitizePodSpec(info.spec, mounts[info.ref])
                         = sanitizePodSpec(SpecOf(p), mounts[p]))
         => /\ statuses' = Append(statuses, [pod |-> pending[idx], node |-> NoNode, reasons |-> Cached])
            /\ checks' = checks
            /\ snapshot' = snapshot
            /\ hints' = hints
            /\ items' = items]_vars

\* A cache hit for a pod other than the one that was stored.
C10_Witness ==
    /\ InRun
    /\ \E i \in 2..Len(statuses) :
          /\ statuses[i].reasons = Cached
          /\ statuses[i].node = NoNode
          /\ statuses[i - 1].pod # statuses[i].pod
          /\ statuses[i - 1].reasons # Cached
          /\ statuses[i - 1].node = NoNode

\* Two pods carry the same signature: same controller, labels equal as
\* reflect.DeepEqual compares them, and specs that are equal once hostname,
\* projected volumes and the mounts naming them are left out.
SameSignature(p, q) ==
    LET plain(v) == ~v.projected
        strip(id) == [c |-> [i \in 1..Len(mounts[id].c) |->
                                FilterMounts(mounts[id].c[i], ProjectedVolumeNames(Pod(id).volumes))],
                      ic |-> [i \in 1..Len(mounts[id].ic) |->
                                FilterMounts(mounts[id].ic[i], ProjectedVolumeNames(Pod(id).volumes))]]
    IN  /\ ControllerRef(p) # NoRef
        /\ ControllerRef(p) = ControllerRef(q)
        /\ Pod(p).labels = Pod(q).labels
        /\ Pod(p).cpu = Pod(q).cpu
        /\ Pod(p).mem = Pod(q).mem
        /\ Pod(p).nodeName = Pod(q).nodeName
        /\ SelectSeq(Pod(p).volumes, plain) = SelectSeq(Pod(q).volumes, plain)
        /\ strip(p) = strip(q)

StoredRefs(uid) == {InfosOf(items, uid)[i].ref : i \in 1..Len(InfosOf(items, uid))}

IsLookup == call.op = "IsSimilarUnschedulable"

\* C12: when a pod of a controller is stored in the cache, a lookup of any pod
\* of that controller with equal labels, whose spec differs only in hostname,
\* projected volumes and the mounts naming them, returns true.
C12_EquivalentPodsKnown ==
    \A p \in LookupCandidates, q \in MarkCandidates :
        (Counted(q) /\ q \in StoredRefs(ControllerRef(q)) /\ SameSignature(p, q)) =>
            /\ IsSimilarUnschedulable(items, p, mounts).found
            /\ (IsLookup /\ call.pod = p) => call.res

\* p5 is found through entries that were all stored for p4.
C12_Witness ==
    /\ IsLookup
    /\ call.pod = "p5"
    /\ call.res
    /\ StoredRefs("rs1") = {"p4"}
    /\ "rs1" \notin overflowingControllers

\* C13: a controller is overflowing exactly when SetUnschedulable was called
\* for it more than 10 times; it is then counted by OverflowingControllerCount,
\* a further SetUnschedulable for it stores nothing, and a lookup of a pod of
\* the controller whose signature was never stored returns false.
C13_OverflowAfterCap ==
    /\ OverflowingControllerCount(overflowingControllers)
          = Cardinality({u \in Controllers : marks[u] > maxPodsPerOwnerRef})
    /\ \A u \in Controllers :
          /\ marks[u] > maxPodsPerOwnerRef <=> u \in overflowingControllers
          /\ u \in overflowingControllers =>
                /\ \A p \in MarkCandidates :
                      ControllerRef(p) = u
                         => SetUnschedulable(items, overflowingControllers, p).items = items
                /\ \A p \in LookupCandidates :
                      (ControllerRef(p) = u /\ \A q \in StoredRefs(u) : ~SameSignature(p, q)) =>
                         /\ ~IsSimilarUnschedulable(items, p, mounts).found
                         /\ (IsLookup /\ call.pod = p) => ~call.res

C13_Witness ==
    /\ marks["rs1"] > maxPodsPerOwnerRef + 1
    /\ "rs1" \in overflowingControllers
    /\ IsLookup
    /\ call.pod = "p7"
    /\ ~call.res

\* C14 as stated: a lookup for a pod of an overflowing controller returns false.
C14_OverflowingNotConsulted ==
    (IsLookup /\ ControllerRef(call.pod) \in overflowingControllers) => ~call.res

\* C14 as amended: the entries stored before the overflow are still consulted:
\* a lookup for a pod of an overflowing controller returns true exactly when
\* an entry stored for the controller carries the pod's signature.
C14_OverflowingStillConsulted ==
    (IsLookup /\ ControllerRef(call.pod) \in overflowingControllers) =>
        (call.res <=> \E q \in StoredRefs(ControllerRef(call.pod)) : SameSignature(call.pod, q))

C14_Witness ==
    /\ IsLookup
    /\ call.pod = "p4"
    /\ call.res
    /\ "rs1" \in overflowingControllers

\* C15: SetUnschedulable for a pod without controller, or for a daemon-set
\* pod, changes neither the stored entries nor the overflowing set, in every
\* cache state.
C15_UncachedPodsLeaveCache ==
    /\ [](\A p \in MarkCandidates :
             ~Counted(p) => SetUnschedulable(items, overflowingControllers, p)
                               = [items |-> items, overflowing |-> overflowingControllers])
    /\ [][(call'.op = "SetUnschedulable" /\ ~Counted(call'.pod))
             => (items' = items /\ overflowingControllers' = overflowingControllers /\ mounts' = mounts)]_vars

\* A daemon-set pod was marked while its controller held 10 entries.
C15_Witness ==
    /\ call.op = "SetUnschedulable"
    /\ call.pod = "d1"
    /\ Len(InfosOf(items, "rs1")) = maxPodsPerOwnerRef
    /\ "rs1" \notin overflowingControllers

\* C16: a lookup for a daemon-set pod or for a pod without controller
\* returns false.
C16_NoLookupHitForUncached ==
    (IsLookup /\ ~Counted(call.pod)) => ~call.res

\* C17: a lookup leaves the volume mounts of every pod object as they were.
C17_ComparisonLeavesRecords ==
    [][call'.op = "IsSimilarUnschedulable" => mounts' = mounts]_vars

\* C18: an initialization that repeats the arguments of the one before it
\* ends with the snapshot the one before it ended with; a finished
\* initialization holds only nodes and pods of its own arguments, and it
\* starts from the empty snapshot.
C18_ReinitializeIsIdempotent ==
    /\ []((pc = "ready" /\ prevInit.valid /\ prevInit.nodes = nodes /\ prevInit.pods = pods)
             => snapshot = prevInit.snapshot)
    /\ [](pc = "ready" =>
             /\ RangeOf(snapshot.order) \subseteq RangeOf(nodes)
             /\ BoundPods(snapshot) \subseteq RangeOf(pods)
             /\ BoundCount(snapshot) <= Len(pods))
    /\ [][(pc # "init_nodes" /\ pc' = "init_nodes") => snapshot' = EmptySnapshot]_vars

C18_Witness ==
    /\ pc = "ready"
    /\ prevInit.valid
    /\ prevInit.nodes = nodes
    /\ prevInit.pods = pods
    /\ BoundCount(snapshot) = 2
    /\ Len(snapshot.order) = 2

\* C19: every controller holds at most 10 stored entries.
C19_AtMostCapEntries ==
    \A u \in DOMAIN items : Len(items[u]) <= maxPodsPerOwnerRef

C19_Witness ==
    /\ pc = "cache"
    /\ Len(InfosOf(items, "rs1")) = maxPodsPerOwnerRef
    /\ marks["rs1"] > maxPodsPerOwnerRef

\* C20: the entries stored for one controller are pairwise distinct: no two
\* of them carry the same signature.
C20_EntriesPairwiseDistinct ==
    \A u \in DOMAIN items :
        \A i, j \in 1..Len(items[u]) :
            i # j => ~SameSignature(items[u][i].ref, items[u][j].ref)

IsPrefix(s, t) == Len(s) <= Len(t) /\ \A i \in 1..Len(s) : t[i] = s[i]

IsMark(p) == call.op = "SetUnschedulable" /\ call.pod = p

\* C21: for a pod with a controller that is not a daemon-set pod, a
\* SetUnschedulable call made while the controller holds fewer than 10 entries
\* stores the pod, a lookup of the pod then returns true, and it keeps
\* returning true after any further calls: entries are never removed or
\* overwritten, and every pod that has an entry is found.
C21_MarkedStaysKnown ==
    /\ [](\A p \in MarkCandidates :
             (Counted(p) /\ p \in StoredRefs(ControllerRef(p))) =>
                 /\ IsSimilarUnschedulable(items, p, mounts).found
                 /\ (IsLookup /\ call.pod = p) => call.res)
    /\ [][\A p \in MarkCandidates :
             (IsMark(p)' /\ Counted(p) /\ Len(InfosOf(items, ControllerRef(p))) < maxPodsPerOwnerRef) =>
                 /\ Len(InfosOf(items, ControllerRef(p))') = Len(InfosOf(items, ControllerRef(p))) + 1
                 /\ Last(InfosOf(items, ControllerRef(p))').ref = p
                 /\ IsSimilarUnschedulable(items', p, mounts').found]_vars
    /\ [][\A u \in DOMAIN items :
             u \in DOMAIN items' /\ IsPrefix(items[u], items'[u])]_vars

\* p4 was stored first, further pods were stored after it, the controller has
\* overflowed since, and a lookup of p4 still returns true.
C21_Witness ==
    /\ IsLookup
    /\ call.pod = "p4"
    /\ call.res
    /\ Len(InfosOf(items, "rs1")) = maxPodsPerOwnerRef
    /\ InfosOf(items, "rs1")[1].ref = "p4"
    /\ "p5" \in StoredRefs("rs1")
    /\ "rs1" \in overflowingControllers

\* What Match reads of a pod as built: controller, labels, sanitized spec.
SignatureOf(p) == <<ControllerRef(p), Pod(p).labels, sanitizePodSpec(SpecOf(p), InitialMounts[p])>>

SamplePods == {"p1", "p8"}

\* One-node snapshots that hold up to MaxBatch pods.
SampleSnapshots ==
    {[order |-> <<"n1">>, pods |-> [n \in {"n1"} |-> ps]] : ps \in SeqsUpTo(SamplePods, MaxBatch)}

\* The checker gives pods of equal signature equal verdicts.
ReadsSignatureOnly(c) ==
    \A s \in SampleSnapshots, p \in ReplicaCandidates, q \in ReplicaCandidates :
        SignatureOf(p) = SignatureOf(q) => Verdict(c, s, p, "n1") = Verdict(c, s, q, "n1")

\* A node on which the checker rejects a pod keeps rejecting it when a pod
\* is bound to the node.
KeepsRejecting(c) ==
    \A s \in SampleSnapshots, x \in SamplePods, p \in ReplicaCandidates :
        Verdict(c, s, p, "n1") # <<>> => Verdict(c, AddPod(s, x, "n1").snap, p, "n1") # <<>>

SoundChecker(c) == ReadsSignatureOnly(c) /\ KeepsRejecting(c)

\* The step records its pod as unschedulable for a cached negative result.
CachedStep ==
    /\ pc = "sched"
    /\ Len(statuses') = Len(statuses) + 1
    /\ Last(statuses').reasons = Cached

\* A full scan of the snapshot finds no eligible node that admits the pod.
NoEligibleNodeAdmits ==
    \A n \in RangeOf(EligibleNodes(snapshot, eligible)) : ~Admissible(snapshot, pending[idx], n)

EntrySignature(info) == <<info.labels, sanitizePodSpec(info.spec, mounts[info.ref])>>

EntrySignatures == [u \in DOMAIN items |-> [i \in 1..Len(items[u]) |-> EntrySignature(items[u][i])]]

\* C23: a controller that is marked overflowing holds exactly 10 entries; over
\* any sequence of SetUnschedulable and IsSimilarUnschedulable calls the set
\* of overflowing controllers only grows and OverflowingControllerCount never
\* decreases; IsSimilarUnschedulable changes neither the entries, nor the
\* signatures they stand for, nor the overflowing set.
C23_OverflowingIsMonotone ==
    /\ [](\A u \in overflowingControllers : Len(InfosOf(items, u)) = maxPodsPerOwnerRef)
    /\ [][/\ overflowingControllers \subseteq overflowingControllers'
           /\ OverflowingControllerCount(overflowingControllers')
                 >= OverflowingControllerCount(overflowingControllers)]_vars
    /\ [][IsLookup' =>
             /\ items' = items
             /\ EntrySignatures' = EntrySignatures
             /\ overflowingControllers' = overflowingControllers]_vars

\* A lookup on an overflowing controller that wrote to the mounts of a stored
\* pod.
C23_Witness ==
    /\ IsLookup
    /\ "rs1" \in overflowingControllers
    /\ OverflowingControllerCount(overflowingControllers) = 1
    /\ "p5" \in StoredRefs("rs1")
    /\ mounts["p5"] # InitialMounts["p5"]

====
